---------------------------- MODULE Spec2Model ----------------------------
(***************************************************************************)
(* Model of ftp-kr's backend-agnostic file interface                       *)
(* (src/vsutil/fileinterface.ts, class FileInterface) and of the status    *)
(* bar indicator it drives (src/vsutil/vsutil.ts, class StateBar).         *)
(*                                                                         *)
(* JavaScript runs every synchronous call and every promise or event       *)
(* handler to completion, so each action below is one such turn: the       *)
(* synchronous part of an operation, one then/catch handler of the backend *)
(* promise, one stream event listener, or one timer callback.              *)
(*                                                                         *)
(* Strings are sequences of one-character tokens.  The wire form of a name *)
(* is a JavaScript string holding one Latin-1 character per byte; the      *)
(* tokens "xC3", "xA9", "xE9", "xFD" stand for those characters/bytes.     *)
(* "E_ACUTE" is U+00E9 and "REPL" is U+FFFD in a host string.              *)
(***************************************************************************)
EXTENDS Integers, Sequences, FiniteSets, TLC

(* ----------------------------- bounds --------------------------------- *)

\* number of operation invocations issued on the connection context
MaxOps == 2

\* number of 'data' chunks a stream delivers to view
MaxChunks == 2

\* number of entries in a directory listing
MaxList == 2

(* ------------------------ FtpErrorCode ------------------------------- *)

REQUEST_MKDIR == 1

FILE_NOT_FOUND == 2

REUQEST_RECONNECT_AND_RETRY == 3

REUQEST_RECONNECT_AND_RETRY_ONCE == 4

CONNECTION_REFUSED == 5

AUTH_FAILED == 6

\* the literal 0 that mkdir passes as ignorecode
MKDIR_IGNORE == 0

\* err.ftpCode of an Error that carries no ftpCode (undefined); no member of the enum
NoCode == 0 - 1

FtpCodes == {MKDIR_IGNORE, REQUEST_MKDIR, FILE_NOT_FOUND, REUQEST_RECONNECT_AND_RETRY,
             REUQEST_RECONNECT_AND_RETRY_ONCE, CONNECTION_REFUSED, AUTH_FAILED, NoCode}

\* the failures a backend primitive rejects with (ftpCode?: number on Error)
BackendErrors == [ftpCode : FtpCodes, message : {"backend failure"}]

(* ------------------------ strings and charsets ----------------------- *)

\* s.indexOf(c) !== -1
Contains(s, c) == \E k \in 1..Len(s) : s[k] = c

\* s.startsWith(c) for a one-character c
StartsWith(s, c) == Len(s) > 0 /\ s[1] = c

Ascii == {"/", ".", "a", "b", "c", "l", "?"}

\* UTF-8 bytes (as Latin-1 characters) of one host character:
\* iconv.encode(ch, 'utf8') followed by iconv.decode(buf, 'binary')
Utf8Bytes(ch) ==
    CASE ch \in Ascii    -> <<ch>>
      [] ch = "E_ACUTE" -> <<"xC3", "xA9">>
      [] ch = "REPL"    -> <<"xEF", "xBF", "xBD">>
      [] ch = "xC3"     -> <<"xC3", "x83">>
      [] ch = "xA9"     -> <<"xC2", "xA9">>

\* iconv.encode(ch, 'binary'): the low byte of the character's code unit
BinaryByte(ch) ==
    CASE ch = "E_ACUTE" -> "xE9"
      [] ch = "REPL"    -> "xFD"
      [] OTHER          -> ch

RECURSIVE EncodeUtf8(_)
EncodeUtf8(s) == IF s = <<>> THEN <<>> ELSE Utf8Bytes(Head(s)) \o EncodeUtf8(Tail(s))

\* iconv.decode(bytes, 'utf8'): a well-formed sequence gives its character,
\* every byte that is part of no well-formed sequence gives U+FFFD
RECURSIVE DecodeUtf8(_)
DecodeUtf8(b) ==
    IF b = <<>> THEN <<>>
    ELSE IF Head(b) \in Ascii THEN <<Head(b)>> \o DecodeUtf8(Tail(b))
    ELSE IF Len(b) >= 2 /\ b[1] = "xC3" /\ b[2] = "xA9"
         THEN <<"E_ACUTE">> \o DecodeUtf8(SubSeq(b, 3, Len(b)))
    ELSE IF Len(b) >= 2 /\ b[1] = "xC3" /\ b[2] = "x83"
         THEN <<"xC3">> \o DecodeUtf8(SubSeq(b, 3, Len(b)))
    ELSE IF Len(b) >= 2 /\ b[1] = "xC2" /\ b[2] = "xA9"
         THEN <<"xA9">> \o DecodeUtf8(SubSeq(b, 3, Len(b)))
    ELSE IF Len(b) >= 3 /\ b[1] = "xEF" /\ b[2] = "xBF" /\ b[3] = "xBD"
         THEN <<"REPL">> \o DecodeUtf8(SubSeq(b, 4, Len(b)))
    ELSE <<"REPL">> \o DecodeUtf8(Tail(b))

\* FileInterface.str2bin with config.fileNameEncoding = 'utf8'
str2bin(str) == EncodeUtf8(str)

\* FileInterface.bin2str with config.fileNameEncoding = 'utf8'
bin2str(bin) == DecodeUtf8([k \in 1..Len(bin) |-> BinaryByte(bin[k])])

(* ------------------------ ftp_path.normalize -------------------------- *)

RECURSIVE FirstSlash(_, _)
FirstSlash(s, k) == IF k > Len(s) THEN 0 ELSE IF s[k] = "/" THEN k ELSE FirstSlash(s, k + 1)

\* s.split('/')
RECURSIVE Split(_)
Split(s) ==
    LET k == FirstSlash(s, 1)
    IN  IF k = 0 THEN <<s>>
        ELSE <<SubSeq(s, 1, k - 1)>> \o Split(SubSeq(s, k + 1, Len(s)))

\* segs.join('/')
RECURSIVE Join(_)
Join(segs) ==
    IF segs = <<>> THEN <<>>
    ELSE IF Len(segs) = 1 THEN segs[1]
    ELSE segs[1] \o <<"/">> \o Join(Tail(segs))

\* drops empty and "." segments, lets ".." cancel the segment before it
RECURSIVE Resolve(_, _, _)
Resolve(segs, acc, abs) ==
    IF segs = <<>> THEN acc
    ELSE LET name == Head(segs)
             rest == Tail(segs)
         IN  IF name = <<>> \/ name = <<".">> THEN Resolve(rest, acc, abs)
             ELSE IF name = <<".", ".">>
                  THEN IF acc # <<>> /\ acc[Len(acc)] # <<".", ".">>
                            THEN Resolve(rest, SubSeq(acc, 1, Len(acc) - 1), abs)
                       ELSE IF abs THEN Resolve(rest, acc, abs)
                       ELSE Resolve(rest, Append(acc, name), abs)
             ELSE Resolve(rest, Append(acc, name), abs)

\* ftp_path.normalize
normalize(ftppath) ==
    LET abs   == StartsWith(ftppath, "/")
        parts == Resolve(Split(ftppath), <<>>, abs)
    IN  IF abs THEN <<"/">> \o Join(parts)
        ELSE IF parts = <<>> THEN <<".">>
        ELSE Join(parts)

(* ------------------------------ StateBar ------------------------------ *)

\* statebar: StatusBarItem | undefined.  "by" names the invocation whose
\* announcement the item shows (0 when there is no item).
NoItem == [exists |-> FALSE, text |-> <<>>, by |-> 0]

\* a StateBar after construction.  created counts the calls of
\* window.createStatusBarItem(), disposals the calls of StatusBarItem.dispose().
NewStateBar == [statebar |-> NoItem, disposed |-> FALSE, created |-> 0, disposals |-> 0]

\* a close that disposes without looking at the statebar field
StateBar_close_unguarded(sb) ==
    [sb EXCEPT !.statebar = NoItem, !.disposals = @ + 1]

\* StateBar.close
StateBar_close(sb) ==
    IF sb.statebar.exists
    THEN [sb EXCEPT !.statebar = NoItem, !.disposals = @ + 1]
    ELSE sb

\* a set that does not look at the disposed flag
StateBar_set_undisposed(sb, state, by) ==
    [sb EXCEPT !.statebar = [exists |-> TRUE, text |-> state, by |-> by],
               !.created = IF sb.statebar.exists THEN @ ELSE @ + 1]

\* StateBar.set
StateBar_set(sb, state, by) ==
    IF sb.disposed THEN sb
    ELSE [sb EXCEPT !.statebar = [exists |-> TRUE, text |-> state, by |-> by],
                    !.created = IF sb.statebar.exists THEN @ ELSE @ + 1]

\* StateBar.dispose
StateBar_dispose(sb) ==
    IF sb.disposed THEN sb
    ELSE [StateBar_close(sb) EXCEPT !.disposed = TRUE]

(* ------------------------------- state -------------------------------- *)

VARIABLES
    config,       \* ServerConfig: name, ignoreWrongFileEncoding, fileNameEncoding
    stateBar,     \* the StateBar the context got from workspace.query(StateBar)
    logger,       \* the lines given to Logger.message, oldest first
    ops,          \* the invocations issued on this context, by number
    timers,       \* callbacks scheduled with setTimeout(.., 0) and not run yet
    invalidEncodingCalls,  \* the arguments oninvalidencoding was invoked with
    terminated,   \* terminate() has aborted the connection
    lastCall      \* the StateBar method called last by a direct caller of the StateBar

vars == <<config, stateBar, logger, ops, timers, invalidEncodingCalls, terminated, lastCall>>

OpIds == 1..MaxOps

\* remote paths (host charset) the callers pass; the wire form of the path
\* differs from it
Paths == {<<"/", "E_ACUTE">>}

\* the error objects of this model
NoErr == [ftpCode |-> NoCode, message |-> ""]

\* what iconv.encode throws for a fileNameEncoding it does not know
EncodingError == [ftpCode |-> NoCode, message |-> "Encoding not recognized"]

\* Error(ftppath + ' is not symlink')
NotSymlinkError == [ftpCode |-> NoCode, message |-> "is not symlink"]

\* the undefined a void operation resolves with
Undefined == [type |-> "undefined", val |-> <<>>]

NoFileInfo == [name |-> <<>>, type |-> "-", link |-> <<>>]

\* an invocation that has not been issued
IdleOp ==
    [kind |-> "none", phase |-> "idle", ftppath |-> <<>>, ftppathTo |-> <<>>,
     fileinfo |-> NoFileInfo, announces |-> 0, settles |-> 0, primitives |-> 0,
     binpath |-> <<>>, binpathTo |-> <<>>, ignorecode |-> NoCode, streamed |-> FALSE,
     backendErr |-> NoErr, backendFailed |-> FALSE,
     closeFired |-> FALSE, errorFired |-> FALSE, buffers |-> <<>>, chunks |-> <<>>,
     raw |-> <<>>, wire |-> <<>>, from |-> 0, arg |-> <<>>, written |-> <<>>,
     result |-> Undefined, error |-> NoErr]

\* phases: idle, pending (backend promise not settled), streaming (download or
\* view listening to the stream), resolved, rejected (the returned promise has
\* settled), thrown (the call threw synchronously)
Finished(o) == o.phase \in {"resolved", "rejected", "thrown"}

\* invocations are issued in the order of their numbers
CanIssue(i) ==
    /\ ops[i].phase = "idle"
    /\ \A j \in OpIds : j < i => ops[j].phase # "idle"

\* a command text: the operation word, the paths after it, and for a failure
\* line the " fail: " marker and the detail appended after ", "
Cmd(op, fail, args, detail) == [op |-> op, fail |-> fail, args |-> args, detail |-> detail]

\* config.name ? config.name+"> "+command : command
Message(command) == [prefix |-> config.name, command |-> command]

\* err.message || err
Detail(err) == err.message

\* FileInterface.logWithState: stateBar.set(message); logger.message(message)
logWithState_stateBar(i, command) == StateBar_set(stateBar, Message(command), i)

\* FileInterface.log and the logger half of logWithState
log(i, command) == Append(logger, [by |-> i, text |-> Message(command)])

\* the record of an invocation that announced and handed binpath to its primitive
Called(kind, ftppath, binpath) ==
    [IdleOp EXCEPT !.kind = kind, !.phase = "pending", !.ftppath = ftppath,
                   !.announces = 1, !.primitives = 1, !.binpath = binpath]

\* the record of an invocation whose str2bin threw after the announcement
TranscodeThrew(kind, ftppath) ==
    [IdleOp EXCEPT !.kind = kind, !.phase = "thrown", !.ftppath = ftppath,
                   !.announces = 1, !.error = EncodingError]

\* str2bin(ftppath) inside the call: iconv.encode throws when the configured
\* fileNameEncoding is not a known encoding
Transcoded(kind, ftppath) ==
    IF config.encodingKnown THEN Called(kind, ftppath, str2bin(ftppath))
    ELSE TranscodeThrew(kind, ftppath)

TypeOK ==
    /\ config \in [name : {"", "srv"}, ignoreWrongFileEncoding : BOOLEAN, encodingKnown : BOOLEAN]
    /\ stateBar.disposed \in BOOLEAN
    /\ terminated \in BOOLEAN
    /\ \A i \in OpIds : ops[i].phase \in {"idle", "pending", "streaming", "resolved", "rejected", "thrown"}

Init ==
    /\ config \in [name : {"", "srv"}, ignoreWrongFileEncoding : BOOLEAN, encodingKnown : BOOLEAN]
    /\ stateBar = NewStateBar
    /\ logger = <<>>
    /\ ops = [i \in OpIds |-> IdleOp]
    /\ timers = <<>>
    /\ invalidEncodingCalls = <<>>
    /\ terminated = FALSE
    /\ lastCall = "none"

(* ---------------------- operations without a stream ------------------- *)

\* the synchronous part shared by every call: announce, transcode, call the primitive
Issue(i, kind, command, ftppath) ==
    /\ CanIssue(i)
    /\ stateBar' = logWithState_stateBar(i, command)
    /\ logger' = log(i, command)
    /\ ops' = [ops EXCEPT ![i] = Transcoded(kind, ftppath)]
    /\ UNCHANGED <<lastCall, config, timers, invalidEncodingCalls, terminated>>

\* a success handler that only settles: stateBar.close(); return
SettleResolve(i, kind) ==
    /\ ops[i].kind = kind /\ ops[i].phase = "pending"
    /\ ~terminated
    /\ stateBar' = StateBar_close(stateBar)
    /\ ops' = [ops EXCEPT ![i].phase = "resolved", ![i].settles = @ + 1,
                          ![i].result = Undefined]
    /\ UNCHANGED <<lastCall, config, logger, timers, invalidEncodingCalls, terminated>>

\* a failure handler that calls the primitive again when the failure asks for
\* a reconnect
SettleLogThrow_retry(i, kind, err, command) ==
    /\ ops[i].kind = kind /\ ops[i].phase = "pending"
    /\ stateBar' = StateBar_close(stateBar)
    /\ logger' = log(i, command)
    /\ ops' = [ops EXCEPT ![i] =
                 IF err.ftpCode \in {REUQEST_RECONNECT_AND_RETRY, REUQEST_RECONNECT_AND_RETRY_ONCE}
                    /\ ops[i].primitives = 1
                 THEN [@ EXCEPT !.primitives = 2, !.settles = @ + 1]
                 ELSE [@ EXCEPT !.phase = "rejected", !.settles = @ + 1,
                                !.backendFailed = TRUE, !.backendErr = err, !.error = err]]
    /\ UNCHANGED <<lastCall, config, timers, invalidEncodingCalls, terminated>>

\* a failure handler: stateBar.close(); this.log(command); throw err
SettleLogThrow(i, kind, err, command) ==
    /\ ops[i].kind = kind /\ ops[i].phase = "pending"
    /\ stateBar' = StateBar_close(stateBar)
    /\ logger' = log(i, command)
    /\ ops' = [ops EXCEPT ![i].phase = "rejected", ![i].settles = @ + 1,
                          ![i].backendFailed = TRUE, ![i].backendErr = err,
                          ![i].error = err]
    /\ UNCHANGED <<lastCall, config, timers, invalidEncodingCalls, terminated>>

\* FileInterface.upload, up to the return of the promise
upload(i, ftppath) == Issue(i, "upload", Cmd("upload", FALSE, <<ftppath>>, ""), ftppath)

upload_then(i) == SettleResolve(i, "upload")

upload_catch(i, err) ==
    SettleLogThrow(i, "upload", err, Cmd("upload", TRUE, <<ops[i].ftppath>>, Detail(err)))

\* FileInterface.write
write(i, ftppath) == Issue(i, "write", Cmd("write", FALSE, <<ftppath>>, ""), ftppath)

write_then(i) == SettleResolve(i, "write")

write_catch(i, err) ==
    SettleLogThrow(i, "write", err, Cmd("write", TRUE, <<ops[i].ftppath>>, ""))

\* FileInterface.rename
rename(i, ftppathFrom, ftppathTo) ==
    /\ CanIssue(i)
    /\ stateBar' = logWithState_stateBar(i, Cmd("rename", FALSE, <<ftppathFrom, ftppathTo>>, ""))
    /\ logger' = log(i, Cmd("rename", FALSE, <<ftppathFrom, ftppathTo>>, ""))
    /\ ops' = [ops EXCEPT ![i] =
                 IF config.encodingKnown
                 THEN [Called("rename", ftppathFrom, str2bin(ftppathFrom))
                          EXCEPT !.ftppathTo = ftppathTo, !.binpathTo = str2bin(ftppathTo)]
                 ELSE [TranscodeThrew("rename", ftppathFrom) EXCEPT !.ftppathTo = ftppathTo]]
    /\ UNCHANGED <<lastCall, config, timers, invalidEncodingCalls, terminated>>

rename_then(i) == SettleResolve(i, "rename")

\* a rename that treats not-found as success
rename_catch_swallow(i, err) ==
    IF err.ftpCode = FILE_NOT_FOUND
    THEN /\ ops[i].kind = "rename" /\ ops[i].phase = "pending"
         /\ stateBar' = StateBar_close(stateBar)
         /\ ops' = [ops EXCEPT ![i].phase = "resolved", ![i].settles = @ + 1,
                               ![i].backendFailed = TRUE, ![i].backendErr = err]
         /\ UNCHANGED <<lastCall, config, logger, timers, invalidEncodingCalls, terminated>>
    ELSE SettleLogThrow(i, "rename", err,
                        Cmd("rename", TRUE, <<ops[i].ftppath, ops[i].ftppathTo>>, Detail(err)))

rename_catch(i, err) ==
    SettleLogThrow(i, "rename", err,
                   Cmd("rename", TRUE, <<ops[i].ftppath, ops[i].ftppathTo>>, Detail(err)))

(* --------------------------- _callWithName ---------------------------- *)

\* a comparison that takes a missing ftpCode for 0
IsIgnored_loose(err, ignorecode) ==
    (IF err.ftpCode = NoCode THEN 0 ELSE err.ftpCode) = ignorecode

\* err.ftpCode === ignorecode
IsIgnored(err, ignorecode) == err.ftpCode = ignorecode

\* FileInterface._callWithName, up to the return of the promise
callWithName(i, name, ftppath, ignorecode) ==
    /\ CanIssue(i)
    /\ stateBar' = logWithState_stateBar(i, Cmd(name, FALSE, <<ftppath>>, ""))
    /\ logger' = log(i, Cmd(name, FALSE, <<ftppath>>, ""))
    /\ ops' = [ops EXCEPT ![i] = [Transcoded(name, ftppath) EXCEPT !.ignorecode = ignorecode]]
    /\ UNCHANGED <<lastCall, config, timers, invalidEncodingCalls, terminated>>

\* v => { this.stateBar.close(); return v; }
callWithName_then(i) ==
    /\ ops[i].kind \in {"rmdir", "delete", "mkdir"}
    /\ SettleResolve(i, ops[i].kind)

\* err => { this.stateBar.close(); if (err.ftpCode === ignorecode) return defVal;
\*          this.log(name+" fail: "+ftppath); throw err; }
callWithName_catch(i, err) ==
    /\ ops[i].kind \in {"rmdir", "delete", "mkdir"}
    /\ ops[i].phase = "pending"
    /\ stateBar' = StateBar_close(stateBar)
    /\ IF IsIgnored(err, ops[i].ignorecode)
       THEN /\ logger' = logger
            /\ ops' = [ops EXCEPT ![i].phase = "resolved", ![i].settles = @ + 1,
                                  ![i].backendFailed = TRUE, ![i].backendErr = err,
                                  ![i].result = Undefined]
       ELSE /\ logger' = log(i, Cmd(ops[i].kind, TRUE, <<ops[i].ftppath>>, ""))
            /\ ops' = [ops EXCEPT ![i].phase = "rejected", ![i].settles = @ + 1,
                                  ![i].backendFailed = TRUE, ![i].backendErr = err,
                                  ![i].error = err]
    /\ UNCHANGED <<lastCall, config, timers, invalidEncodingCalls, terminated>>

\* FileInterface.rmdir
rmdir(i, ftppath) == callWithName(i, "rmdir", ftppath, FILE_NOT_FOUND)

\* a delete that declares the wrong code
delete_wrongcode(i, ftppath) == callWithName(i, "delete", ftppath, REQUEST_MKDIR)

\* FileInterface.delete
delete(i, ftppath) == callWithName(i, "delete", ftppath, FILE_NOT_FOUND)

\* FileInterface.mkdir
mkdir(i, ftppath) == callWithName(i, "mkdir", ftppath, MKDIR_IGNORE)

(* -------------------------- download and view ------------------------- *)

\* the bytes a stream delivers in one 'data' event
Chunks == {<<"x">>, <<"y", "z">>}

\* FileInterface.download, up to the return of the promise
download(i, ftppath) == Issue(i, "download", Cmd("download", FALSE, <<ftppath>>, ""), ftppath)

\* stream => new Promise(..): registers the 'close' and 'error' listeners and pipes
download_then(i) ==
    /\ ops[i].kind = "download" /\ ops[i].phase = "pending"
    /\ ~terminated
    /\ ops' = [ops EXCEPT ![i].phase = "streaming", ![i].streamed = TRUE]
    /\ UNCHANGED <<lastCall, config, stateBar, logger, timers, invalidEncodingCalls, terminated>>

download_catch(i, err) ==
    SettleLogThrow(i, "download", err, Cmd("download", TRUE, <<ops[i].ftppath>>, ""))

\* stream.once('close', ..): stateBar.close(); resolve().  resolve() changes
\* nothing once the promise has settled.
StreamClose(i, kind, value) ==
    /\ ops[i].kind = kind /\ ops[i].streamed /\ ~ops[i].closeFired
    /\ stateBar' = StateBar_close(stateBar)
    /\ ops' = [ops EXCEPT ![i].closeFired = TRUE, ![i].settles = @ + 1,
                          ![i].phase = IF @ = "streaming" THEN "resolved" ELSE @,
                          ![i].result = IF ops[i].phase = "streaming" THEN value ELSE @]
    /\ UNCHANGED <<lastCall, config, logger, timers, invalidEncodingCalls, terminated>>

\* an 'error' listener that rejects without settling the reporter
StreamError_unsettled(i, kind, err) ==
    /\ ops[i].kind = kind /\ ops[i].streamed /\ ~ops[i].errorFired
    /\ ops' = [ops EXCEPT ![i].errorFired = TRUE,
                          ![i].phase = IF @ = "streaming" THEN "rejected" ELSE @,
                          ![i].error = IF ops[i].phase = "streaming" THEN err ELSE @]
    /\ UNCHANGED <<lastCall, config, stateBar, logger, timers, invalidEncodingCalls, terminated>>

\* stream.once('error', ..): stateBar.close(); reject(err)
StreamError(i, kind, err) ==
    /\ ops[i].kind = kind /\ ops[i].streamed /\ ~ops[i].errorFired
    /\ stateBar' = StateBar_close(stateBar)
    /\ ops' = [ops EXCEPT ![i].errorFired = TRUE, ![i].settles = @ + 1,
                          ![i].phase = IF @ = "streaming" THEN "rejected" ELSE @,
                          ![i].error = IF ops[i].phase = "streaming" THEN err ELSE @]
    /\ UNCHANGED <<lastCall, config, logger, timers, invalidEncodingCalls, terminated>>

\* stream.pipe(localpath.createWriteStream()): every chunk the stream emits
\* is written to the local file; chunks records what the stream emitted
download_ondata(i, data) ==
    /\ ops[i].kind = "download" /\ ops[i].streamed
    /\ ~ops[i].closeFired /\ ~ops[i].errorFired
    /\ Len(ops[i].chunks) < MaxChunks
    /\ ops' = [ops EXCEPT ![i].written = @ \o data, ![i].chunks = Append(@, data)]
    /\ UNCHANGED <<lastCall, config, stateBar, logger, timers, invalidEncodingCalls, terminated>>

download_onclose(i) == StreamClose(i, "download", Undefined)

download_onerror(i, err) == StreamError(i, "download", err)

\* FileInterface.view, up to the return of the promise
view(i, ftppath) == Issue(i, "view", Cmd("view", FALSE, <<ftppath>>, ""), ftppath)

view_then(i) ==
    /\ ops[i].kind = "view" /\ ops[i].phase = "pending"
    /\ ~terminated
    /\ ops' = [ops EXCEPT ![i].phase = "streaming", ![i].streamed = TRUE]
    /\ UNCHANGED <<lastCall, config, stateBar, logger, timers, invalidEncodingCalls, terminated>>

view_catch(i, err) ==
    SettleLogThrow(i, "view", err, Cmd("view", TRUE, <<ops[i].ftppath>>, ""))

\* stream.on('data', data => buffers.push(data)); chunks records what the
\* stream emitted
view_ondata(i, data) ==
    /\ ops[i].kind = "view" /\ ops[i].streamed
    /\ ~ops[i].closeFired /\ ~ops[i].errorFired
    /\ Len(ops[i].chunks) < MaxChunks
    /\ ops' = [ops EXCEPT ![i].buffers = Append(@, data), ![i].chunks = Append(@, data)]
    /\ UNCHANGED <<lastCall, config, stateBar, logger, timers, invalidEncodingCalls, terminated>>

RECURSIVE Flatten(_)
Flatten(buffers) ==
    IF buffers = <<>> THEN <<>> ELSE Head(buffers) \o Flatten(Tail(buffers))

\* a concatenation that puts the newest chunk first
RECURSIVE FlattenReversed(_)
FlattenReversed(buffers) ==
    IF buffers = <<>> THEN <<>> ELSE FlattenReversed(Tail(buffers)) \o Head(buffers)

BufferConcat_reversed(buffers) == [type |-> "buffer", val |-> FlattenReversed(buffers)]

\* Buffer.concat(buffers)
BufferConcat(buffers) == [type |-> "buffer", val |-> Flatten(buffers)]

view_onclose(i) == StreamClose(i, "view", BufferConcat(ops[i].buffers))

view_onerror(i, err) == StreamError(i, "view", err)

(* -------------------------------- list -------------------------------- *)

\* entry names as the backend hands them over (wire form): plain ASCII, a
\* name with a literal '?', a well-formed UTF-8 name, a malformed one
WireNames == {<<"a">>, <<"a", "?">>, <<"xC3", "xA9">>, <<"xC3">>}

RECURSIVE SeqsUpTo(_, _)
SeqsUpTo(S, n) ==
    IF n = 0 THEN {<<>>}
    ELSE LET shorter == SeqsUpTo(S, n - 1)
         IN  shorter \cup {Append(q, x) : q \in shorter, x \in S}

\* the name arrays of the listings the backend returns
Listings == SeqsUpTo(WireNames, MaxList)

ListPaths == {<<>>, <<".">>}

\* fn.indexOf('�') !== -1 || fn.indexOf('?') !== -1
LooksInvalid(fn) == Contains(fn, "REPL") \/ Contains(fn, "?")

\* the loop over the listing: file.name = this.bin2str(file.name) for every entry
TranscodeNames(names) == [k \in 1..Len(names) |-> bin2str(names[k])]

\* the loop over the listing: the names pushed to errfiles, in listing order
RECURSIVE ErrFiles(_, _)
ErrFiles(names, ignoreWrongFileEncoding) ==
    IF names = <<>> THEN <<>>
    ELSE LET fn == bin2str(Head(names))
         IN  (IF ~ignoreWrongFileEncoding /\ LooksInvalid(fn) THEN <<fn>> ELSE <<>>)
             \o ErrFiles(Tail(names), ignoreWrongFileEncoding)

\* a list that passes the empty path on as it is
ListPath_kept(ftppath) == ftppath

\* if (!ftppath) ftppath = "."
ListPath(ftppath) == IF ftppath = <<>> THEN <<".">> ELSE ftppath

\* FileInterface.list, up to the return of the promise; arg records the path
\* the caller passed
list(i, ftppath) ==
    /\ CanIssue(i)
    /\ stateBar' = logWithState_stateBar(i, Cmd("list", FALSE, <<ListPath(ftppath)>>, ""))
    /\ logger' = log(i, Cmd("list", FALSE, <<ListPath(ftppath)>>, ""))
    /\ ops' = [ops EXCEPT ![i] = [Transcoded("list", ListPath(ftppath)) EXCEPT !.arg = ftppath]]
    /\ UNCHANGED <<lastCall, config, timers, invalidEncodingCalls, terminated>>

\* the entry objects after the loop of handler i has run over them: the
\* listing of i holds them, and so does the listing of j when the backend has
\* handed over the very objects it gave to invocation j (j = 0: fresh objects)
Rewritten(i, names, j) ==
    [o \in OpIds |->
        IF o = i
        THEN [ops[i] EXCEPT !.phase = "resolved", !.settles = @ + 1,
                            !.raw = names,
                            !.wire = IF j = 0 THEN names ELSE ops[j].wire,
                            !.from = j,
                            !.result = [type |-> "entries", val |-> TranscodeNames(names)]]
        ELSE IF o = j
        THEN [ops[j] EXCEPT !.result = [type |-> "entries", val |-> TranscodeNames(names)]]
        ELSE ops[o]]

\* the names of the entry objects the backend resolves _list with: wire names
\* on fresh objects, or the objects of the listing of j as they are now
Handed(i, names, j) ==
    \/ j = 0
    \/ /\ j \in OpIds /\ j # i
       /\ ops[j].kind = "list" /\ ops[j].phase = "resolved"
       /\ names = ops[j].result.val

\* a handler that invokes oninvalidencoding itself instead of scheduling it
list_then_sync(i, names, j) ==
    /\ ops[i].kind = "list" /\ ops[i].phase = "pending"
    /\ ~terminated
    /\ Handed(i, names, j)
    /\ stateBar' = StateBar_close(stateBar)
    /\ LET errfiles == ErrFiles(names, config.ignoreWrongFileEncoding)
       IN  invalidEncodingCalls' = IF Len(errfiles) > 0
                                   THEN Append(invalidEncodingCalls, [by |-> i, errfiles |-> errfiles])
                                   ELSE invalidEncodingCalls
    /\ ops' = Rewritten(i, names, j)
    /\ UNCHANGED <<lastCall, config, logger, timers, terminated>>

\* list => { stateBar.close(); transcode the names in place; collect errfiles;
\*           if (errfiles.length) setTimeout(..); return list; }
list_then(i, names, j) ==
    /\ ops[i].kind = "list" /\ ops[i].phase = "pending"
    /\ ~terminated
    /\ Handed(i, names, j)
    /\ stateBar' = StateBar_close(stateBar)
    /\ LET errfiles == ErrFiles(names, config.ignoreWrongFileEncoding)
       IN  timers' = IF Len(errfiles) > 0
                     THEN Append(timers, [by |-> i, errfiles |-> errfiles])
                     ELSE timers
    /\ ops' = Rewritten(i, names, j)
    /\ UNCHANGED <<lastCall, config, logger, invalidEncodingCalls, terminated>>

list_catch(i, err) ==
    SettleLogThrow(i, "list", err, Cmd("list", TRUE, <<ops[i].ftppath>>, Detail(err)))

\* the callback given to setTimeout: () => this.oninvalidencoding(errfiles)
timeout_oninvalidencoding ==
    /\ timers # <<>>
    /\ invalidEncodingCalls' = Append(invalidEncodingCalls, Head(timers))
    /\ timers' = Tail(timers)
    /\ UNCHANGED <<lastCall, config, stateBar, logger, ops, terminated>>

(* ------------------------------ readlink ------------------------------ *)

ReadlinkPaths == {<<"/", "E_ACUTE", "/", "l">>}

\* the FileInfo objects given to readlink: a symlink and a directory
FileInfos == [name : {<<"l">>}, type : {"l", "d"}, link : {<<>>}]

\* the raw link targets the backend returns
RawTargets == {<<"c">>, <<"/", "b", "/", "c">>, <<".", ".", "/", "c">>}

\* a resolution that takes every target for relative
ResolveLink_relative(ftppath, v) == normalize(ftppath \o <<"/", ".", ".", "/">> \o v)

\* if (v.startsWith('/')) v = normalize(v); else v = normalize(ftppath + '/../' + v)
ResolveLink(ftppath, v) ==
    IF StartsWith(v, "/") THEN normalize(v)
    ELSE normalize(ftppath \o <<"/", ".", ".", "/">> \o v)

\* the test of readlink's first line: fileinfo.type !== 'l' throws
IsSymlink_untested(fileinfo) == TRUE

IsSymlink(fileinfo) == fileinfo.type = "l"

\* FileInterface.readlink, up to the return of the promise or the throw
readlink(i, fileinfo, ftppath) ==
    /\ CanIssue(i)
    /\ IF ~IsSymlink(fileinfo)
       THEN /\ ops' = [ops EXCEPT ![i] = [IdleOp EXCEPT !.kind = "readlink", !.phase = "thrown",
                                            !.ftppath = ftppath, !.fileinfo = fileinfo,
                                            !.error = NotSymlinkError]]
            /\ UNCHANGED <<stateBar, logger>>
       ELSE /\ stateBar' = logWithState_stateBar(i, Cmd("readlink", FALSE, <<fileinfo.name>>, ""))
            /\ logger' = log(i, Cmd("readlink", FALSE, <<fileinfo.name>>, ""))
            /\ ops' = [ops EXCEPT ![i] = [Transcoded("readlink", ftppath) EXCEPT !.fileinfo = fileinfo]]
    /\ UNCHANGED <<lastCall, config, timers, invalidEncodingCalls, terminated>>

\* v => { resolve the target; fileinfo.link = v; stateBar.close(); return v; }
readlink_then(i, v) ==
    /\ ops[i].kind = "readlink" /\ ops[i].phase = "pending"
    /\ ~terminated
    /\ stateBar' = StateBar_close(stateBar)
    /\ ops' = [ops EXCEPT ![i].phase = "resolved", ![i].settles = @ + 1,
                          ![i].raw = v,
                          ![i].fileinfo.link = ResolveLink(ops[i].ftppath, v),
                          ![i].result = [type |-> "string", val |-> ResolveLink(ops[i].ftppath, v)]]
    /\ UNCHANGED <<lastCall, config, logger, timers, invalidEncodingCalls, terminated>>

readlink_catch(i, err) ==
    SettleLogThrow(i, "readlink", err,
                   Cmd("readlink", TRUE, <<ops[i].fileinfo.name>>, Detail(err)))

(* ----------------------------- environment ---------------------------- *)

\* terminate() called by the owner of the context: the connection is gone,
\* every primitive still pending can only fail
terminate ==
    /\ ~terminated
    /\ terminated' = TRUE
    /\ UNCHANGED <<lastCall, config, stateBar, logger, ops, timers, invalidEncodingCalls>>

\* the 'error' events a stream emits
StreamErrors == {[ftpCode |-> NoCode, message |-> "stream failure"]}

Next ==
    \/ \E i \in OpIds, p \in Paths : upload(i, p)
    \/ \E i \in OpIds : upload_then(i)
    \/ \E i \in OpIds, err \in BackendErrors : upload_catch(i, err)
    \/ \E i \in OpIds, p \in Paths : download(i, p)
    \/ \E i \in OpIds : download_then(i)
    \/ \E i \in OpIds, err \in BackendErrors : download_catch(i, err)
    \/ \E i \in OpIds, data \in Chunks : download_ondata(i, data)
    \/ \E i \in OpIds : download_onclose(i)
    \/ \E i \in OpIds, err \in StreamErrors : download_onerror(i, err)
    \/ \E i \in OpIds, p \in Paths : view(i, p)
    \/ \E i \in OpIds : view_then(i)
    \/ \E i \in OpIds, err \in BackendErrors : view_catch(i, err)
    \/ \E i \in OpIds, data \in Chunks : view_ondata(i, data)
    \/ \E i \in OpIds : view_onclose(i)
    \/ \E i \in OpIds, err \in StreamErrors : view_onerror(i, err)
    \/ \E i \in OpIds, p \in Paths : write(i, p)
    \/ \E i \in OpIds : write_then(i)
    \/ \E i \in OpIds, err \in BackendErrors : write_catch(i, err)
    \/ \E i \in OpIds, p \in ListPaths : list(i, p)
    \/ \E i \in OpIds, names \in Listings : list_then(i, names, 0)
    \/ \E i, j \in OpIds : list_then(i, ops[j].result.val, j)
    \/ \E i \in OpIds, err \in BackendErrors : list_catch(i, err)
    \/ timeout_oninvalidencoding
    \/ \E i \in OpIds, p \in Paths : rmdir(i, p)
    \/ \E i \in OpIds, p \in Paths : delete(i, p)
    \/ \E i \in OpIds, p \in Paths : mkdir(i, p)
    \/ \E i \in OpIds : callWithName_then(i)
    \/ \E i \in OpIds, err \in BackendErrors : callWithName_catch(i, err)
    \/ \E i \in OpIds, f \in FileInfos, p \in ReadlinkPaths : readlink(i, f, p)
    \/ \E i \in OpIds, v \in RawTargets : readlink_then(i, v)
    \/ \E i \in OpIds, err \in BackendErrors : readlink_catch(i, err)
    \/ \E i \in OpIds, p \in Paths : rename(i, p, <<"/", "b">>)
    \/ \E i \in OpIds : rename_then(i)
    \/ \E i \in OpIds, err \in BackendErrors : rename_catch(i, err)
    \/ terminate

Spec == Init /\ [][Next]_vars

(* ----------------------- the StateBar on its own --------------------- *)

\* number of status bar items a StateBar creates
MaxItems == 3

\* the texts given to StateBar.set
StateTexts == {Message(Cmd(op, FALSE, <<p>>, "")) : op \in {"upload", "list", "mkdir"}, p \in Paths}

\* a call of StateBar.set by any holder of the StateBar
set_call(state) ==
    /\ stateBar.created < MaxItems \/ stateBar.statebar.exists \/ stateBar.disposed
    /\ stateBar' = StateBar_set(stateBar, state, 0)
    /\ lastCall' = "set"
    /\ UNCHANGED <<config, logger, ops, timers, invalidEncodingCalls, terminated>>

\* a call of StateBar.close
close_call ==
    /\ stateBar' = StateBar_close(stateBar)
    /\ lastCall' = "close"
    /\ UNCHANGED <<config, logger, ops, timers, invalidEncodingCalls, terminated>>

\* a call of StateBar.dispose
dispose_call ==
    /\ stateBar' = StateBar_dispose(stateBar)
    /\ lastCall' = "dispose"
    /\ UNCHANGED <<config, logger, ops, timers, invalidEncodingCalls, terminated>>

NextStateBar ==
    \/ \E state \in StateTexts : set_call(state)
    \/ close_call
    \/ dispose_call

\* every sequence of set, close and dispose calls on a new StateBar
SpecStateBar == Init /\ [][NextStateBar]_vars

(* ============================ properties ============================== *)

\* the failure lines invocation i has written to the log
FailLines(i) == {k \in 1..Len(logger) : logger[k].by = i /\ logger[k].text.command.fail}

\* the invocation's announcement is what the indicator shows
Shows(i) == stateBar.statebar.exists /\ stateBar.statebar.by = i

\* the invalid-encoding callbacks invocation i has scheduled, run or not
Scheduled(i) ==
    SelectSeq(invalidEncodingCalls, LAMBDA t : t.by = i) \o SelectSeq(timers, LAMBDA t : t.by = i)

\* C1: an invocation of a transfer operation settles the reporter exactly
\* once: never more than once, and once by the time its promise has resolved
\* or rejected.
C1_SettleExactlyOnce ==
    \A i \in OpIds :
        /\ ops[i].settles <= 1
        /\ ops[i].phase \in {"resolved", "rejected"} => ops[i].settles = 1

\* C2: once an invocation has finished, resolved, rejected or failed in any
\* other way, the indicator does not show that invocation's message.
C2_NoStuckIndicator ==
    \A i \in OpIds : Finished(ops[i]) => ~Shows(i)

\* C3: in the step in which an operation's returned promise rejects, the
\* indicator is already cleared: no item exists when the failure is surfaced.
C3_ClearedBeforeRejection ==
    [][\A i \in OpIds :
          (ops[i].phase # "rejected" /\ ops'[i].phase = "rejected")
              => ~stateBar'.statebar.exists]_vars

\* C3 witness: a promise has rejected after terminate(), and a download or
\* view has rejected on a stream 'error'
C3_Witness ==
    /\ \E i \in OpIds : ops[i].phase = "rejected" /\ ops[i].backendFailed /\ terminated
    /\ \E i \in OpIds : ops[i].phase = "rejected" /\ ops[i].errorFired

\* C4: every failure a transfer operation propagates through its promise has
\* left exactly one failure line, and the line names the operation and the
\* remote path (for readlink, the entry the path leads to).
C4_OneFailureLine ==
    \A i \in OpIds :
        ops[i].phase = "rejected" =>
            /\ Cardinality(FailLines(i)) = 1
            /\ \A k \in FailLines(i) :
                  /\ logger[k].text.command.op = ops[i].kind
                  /\ logger[k].text.command.args[1] \in {ops[i].ftppath, ops[i].fileinfo.name}

\* C5: rmdir and delete whose primitive failed with FILE_NOT_FOUND resolve
\* with no value and write no failure line.
C5_NotFoundIsSuccess ==
    \A i \in OpIds :
        (/\ ops[i].kind \in {"rmdir", "delete"}
         /\ ops[i].backendFailed
         /\ ops[i].backendErr.ftpCode = FILE_NOT_FOUND)
            => /\ ops[i].phase = "resolved"
               /\ ops[i].result = Undefined
               /\ FailLines(i) = {}

C5_Witness ==
    /\ \E i \in OpIds : ops[i].kind = "rmdir" /\ ops[i].backendFailed
                        /\ ops[i].backendErr.ftpCode = FILE_NOT_FOUND
    /\ \E i \in OpIds : ops[i].kind = "delete" /\ ops[i].backendFailed
                        /\ ops[i].backendErr.ftpCode = FILE_NOT_FOUND

\* C6: a mkdir whose primitive failed resolves if and only if the failure
\* carries code 0; with any other code, or with none, the promise rejects
\* with that failure.
C6_MkdirSwallowsOnlyZero ==
    \A i \in OpIds :
        (ops[i].kind = "mkdir" /\ ops[i].backendFailed) =>
            IF ops[i].backendErr.ftpCode = 0
            THEN ops[i].phase = "resolved"
            ELSE ops[i].phase = "rejected" /\ ops[i].error = ops[i].backendErr

C6_Witness ==
    /\ \E i \in OpIds : ops[i].kind = "mkdir" /\ ops[i].backendFailed
                        /\ ops[i].backendErr.ftpCode = 0 /\ ops[i].phase = "resolved"
    /\ \E i \in OpIds : ops[i].kind = "mkdir" /\ ops[i].backendFailed
                        /\ ops[i].backendErr.ftpCode = NoCode /\ ops[i].phase = "rejected"

\* the kinds of failure each call site declares as benign
SwallowedCodes(kind) ==
    CASE kind \in {"rmdir", "delete"} -> {FILE_NOT_FOUND}
      [] kind = "mkdir"               -> {0}
      [] OTHER                        -> {}

\* C7: a failure of the backend primitive is swallowed exactly when its code
\* is the one the call site declares; every other one is logged and the
\* promise rejects with the same failure.  The outcome is a function of the
\* operation and the code alone.
C7_SwallowOnlyDeclared ==
    \A i \in OpIds :
        ops[i].backendFailed =>
            IF ops[i].backendErr.ftpCode \in SwallowedCodes(ops[i].kind)
            THEN ops[i].phase = "resolved" /\ FailLines(i) = {}
            ELSE /\ ops[i].phase = "rejected"
                 /\ ops[i].error = ops[i].backendErr
                 /\ FailLines(i) # {}

\* C7 witness: a rename that failed with not-found after an rmdir swallowed it
C7_Witness ==
    \E i, j \in OpIds :
        /\ i < j
        /\ ops[i].kind = "rmdir" /\ ops[i].backendFailed /\ ops[i].phase = "resolved"
        /\ ops[j].kind = "rename" /\ ops[j].backendFailed
        /\ ops[j].backendErr.ftpCode = FILE_NOT_FOUND /\ ops[j].phase = "rejected"

\* C8: readlink on an entry that is no symlink throws at once: no primitive
\* is invoked, nothing is announced or logged, the link field keeps its value.
C8_NotSymlinkFailsAtOnce ==
    \A i \in OpIds :
        (ops[i].kind = "readlink" /\ ops[i].fileinfo.type # "l") =>
            /\ ops[i].phase = "thrown"
            /\ ops[i].primitives = 0
            /\ ops[i].announces = 0
            /\ ops[i].fileinfo.link = <<>>
            /\ ~Shows(i)
            /\ \A k \in 1..Len(logger) : logger[k].by # i

C8_Witness ==
    \E i \in OpIds : ops[i].kind = "readlink" /\ ops[i].fileinfo.type = "d"
                     /\ ops[i].phase = "thrown"

\* C9: a resolved readlink returns normalize(raw) for a raw target starting
\* with '/', normalize(remotePath + "/../" + raw) otherwise, remotePath being
\* the host-charset path of the call; the entry's link field holds that value.
C9_ReadlinkResolution ==
    \A i \in OpIds :
        (ops[i].kind = "readlink" /\ ops[i].phase = "resolved") =>
            LET raw      == ops[i].raw
                expected == IF raw[1] = "/" THEN normalize(raw)
                            ELSE normalize(ops[i].ftppath \o <<"/", ".", ".", "/">> \o raw)
            IN  /\ ops[i].result = [type |-> "string", val |-> expected]
                /\ ops[i].fileinfo.link = expected

C9_Witness ==
    /\ \E i \in OpIds : ops[i].kind = "readlink" /\ ops[i].phase = "resolved"
                        /\ ops[i].raw = <<"c">>
                        /\ ops[i].fileinfo.link = <<"/", "E_ACUTE", "/", "c">>
    /\ \E i \in OpIds : ops[i].kind = "readlink" /\ ops[i].phase = "resolved"
                        /\ ops[i].raw = <<"/", "b", "/", "c">>
                        /\ ops[i].fileinfo.link = <<"/", "b", "/", "c">>

\* a name is suspect when its host form holds the replacement character, or
\* a '?' that its wire form did not hold
Suspect(wire) ==
    \/ Contains(bin2str(wire), "REPL")
    \/ Contains(bin2str(wire), "?") /\ ~Contains(wire, "?")

RECURSIVE SuspectNames(_)
SuspectNames(names) ==
    IF names = <<>> THEN <<>>
    ELSE (IF Suspect(Head(names)) THEN <<bin2str(Head(names))>> ELSE <<>>)
         \o SuspectNames(Tail(names))

\* C10: a finished list call has scheduled one invocation of the
\* invalid-encoding callback, with exactly the suspect names of its listing,
\* when the listing holds suspect names and ignoreWrongFileEncoding is false;
\* it has scheduled none when the option is true, when no name is suspect or
\* when the backend list failed.
C10_CallbackExactlySuspects ==
    \A i \in OpIds :
        (ops[i].kind = "list" /\ Finished(ops[i])) =>
            IF /\ ops[i].phase = "resolved"
               /\ ~config.ignoreWrongFileEncoding
               /\ SuspectNames(ops[i].raw) # <<>>
            THEN /\ Len(Scheduled(i)) = 1
                 /\ Scheduled(i)[1].errfiles = SuspectNames(ops[i].raw)
            ELSE Len(Scheduled(i)) = 0

\* C11: the invalid-encoding callback runs in a turn of its own, never inside
\* a call or a handler of an operation, and the list call that triggered it
\* has returned and its promise has been resolved before that turn begins.
C11_CallbackDeferred ==
    [][invalidEncodingCalls' # invalidEncodingCalls =>
          /\ ops' = ops
          /\ Len(invalidEncodingCalls') = Len(invalidEncodingCalls) + 1
          /\ LET t == invalidEncodingCalls'[Len(invalidEncodingCalls')]
             IN  ops[t.by].kind = "list" /\ ops[t.by].phase = "resolved"]_vars

C11_Witness ==
    \E k \in 1..Len(invalidEncodingCalls) :
        ops[invalidEncodingCalls[k].by].phase = "resolved"

\* the names of a scheduled callback, as a set
ReportedNames(i) ==
    UNION {{Scheduled(i)[k].errfiles[n] : n \in 1..Len(Scheduled(i)[k].errfiles)} :
              k \in 1..Len(Scheduled(i))}

\* C12: with ignoreWrongFileEncoding false, a name of a listing is reported
\* to the invalid-encoding callback if and only if its host form holds the
\* replacement character or a '?' that its wire form did not hold.
C12_ReportedIffSuspect ==
    \A i \in OpIds :
        (ops[i].kind = "list" /\ ops[i].phase = "resolved" /\ ~config.ignoreWrongFileEncoding) =>
            \A k \in 1..Len(ops[i].raw) :
                (bin2str(ops[i].raw[k]) \in ReportedNames(i)) <=> Suspect(ops[i].raw[k])

\* C13: once the first of 'close' and 'error' has decided a download or a
\* view, the later event changes neither the outcome nor the indicator: it
\* does not clear what another operation has announced in between.
C13_LaterEventChangesNothing ==
    [][\A i \in OpIds :
          (/\ ops[i].kind \in {"download", "view"}
           /\ ops[i].phase \in {"resolved", "rejected"}
           /\ \/ ops'[i].closeFired # ops[i].closeFired
              \/ ops'[i].errorFired # ops[i].errorFired)
              => /\ ops'[i].phase = ops[i].phase
                 /\ ops'[i].result = ops[i].result
                 /\ ops'[i].error = ops[i].error
                 /\ stateBar' = stateBar]_vars

\* C14: the names of every list result are the wire names of its entries
\* passed through bin2str once, also when the backend hands over entry
\* objects it has handed over before.
C14_TranscodedOnce ==
    \A i \in OpIds :
        (ops[i].kind = "list" /\ ops[i].phase = "resolved") =>
            ops[i].result.val = TranscodeNames(ops[i].wire)

\* the texts invocation i has given to the logger, oldest first
LogTexts(i) ==
    LET mine == SelectSeq(logger, LAMBDA l : l.by = i)
    IN  [k \in 1..Len(mine) |-> mine[k].text]

\* the entry objects of invocation i are held by no other listing
OwnEntries(i) ==
    /\ ops[i].from = 0
    /\ \A o \in OpIds : ops[o].from # i

\* C15: a list("") and a list(".") announce and log the same message and
\* pass the same wire path to the primitive; with the same outcome of the
\* primitive they give the same result, the same failure and the same log
\* lines, and schedule the same callback.
C15_EmptyPathIsDot ==
    \A i, j \in OpIds :
        (/\ ops[i].kind = "list" /\ ops[i].arg = <<>>
         /\ ops[j].kind = "list" /\ ops[j].arg = <<".">>)
            => /\ ops[i].ftppath = ops[j].ftppath
               /\ ops[i].binpath = ops[j].binpath
               /\ ops[i].announces = ops[j].announces
               /\ ops[i].primitives = ops[j].primitives
               /\ LogTexts(i)[1] = LogTexts(j)[1]
               /\ (/\ ops[i].phase = ops[j].phase
                   /\ ops[i].backendErr = ops[j].backendErr
                   /\ ops[i].raw = ops[j].raw
                   /\ OwnEntries(i) /\ OwnEntries(j))
                      => /\ ops[i].result = ops[j].result
                         /\ ops[i].error = ops[j].error
                         /\ LogTexts(i) = LogTexts(j)
                         /\ Len(Scheduled(i)) = Len(Scheduled(j))
                         /\ \A k \in 1..Len(Scheduled(i)) :
                               Scheduled(i)[k].errfiles = Scheduled(j)[k].errfiles

\* C15 witness: a list("") and a list(".") have both failed with the same
\* failure of the primitive
C15_Witness ==
    \E i, j \in OpIds :
        /\ ops[i].kind = "list" /\ ops[i].arg = <<>> /\ ops[i].phase = "rejected"
        /\ ops[j].kind = "list" /\ ops[j].arg = <<".">> /\ ops[j].phase = "rejected"
        /\ ops[i].backendErr = ops[j].backendErr

\* the bytes of the chunks a stream emitted, in the order of their arrival
RECURSIVE BytesOf(_, _)
BytesOf(chunks, k) ==
    IF k > Len(chunks) THEN <<>> ELSE chunks[k] \o BytesOf(chunks, k + 1)

\* C16: a view resolves with the bytes of all chunks its stream emitted
\* before 'close', in arrival order; a download has written the same bytes to
\* the local file, so a view and a download of the same content agree.
C16_ViewBytesInArrivalOrder ==
    /\ \A i \in OpIds :
          (ops[i].kind = "view" /\ ops[i].phase = "resolved") =>
              ops[i].result = [type |-> "buffer", val |-> BytesOf(ops[i].chunks, 1)]
    /\ \A i, j \in OpIds :
          (/\ ops[i].kind = "view" /\ ops[i].phase = "resolved"
           /\ ops[j].kind = "download" /\ ops[j].phase = "resolved"
           /\ ops[i].chunks = ops[j].chunks)
              => ops[i].result.val = ops[j].written

\* C16 witness: a view and a download of the same two chunks have resolved
C16_Witness ==
    \E i, j \in OpIds :
        /\ ops[i].kind = "view" /\ ops[i].phase = "resolved"
        /\ ops[j].kind = "download" /\ ops[j].phase = "resolved"
        /\ ops[i].chunks = <<<<"y", "z">>, <<"x">>>>
        /\ ops[j].chunks = ops[i].chunks

\* C17, as claimed: a finished invocation has invoked its primitive exactly
\* once, unless it is a readlink that rejected an entry that is no symlink.
C17_PrimitiveExactlyOnce ==
    \A i \in OpIds :
        Finished(ops[i]) =>
            ops[i].primitives =
                (IF ops[i].kind = "readlink" /\ ops[i].fileinfo.type # "l" THEN 0 ELSE 1)

\* C17, amended: an invocation invokes its primitive at most once; a finished
\* one has invoked it exactly once, unless it is a readlink that rejected an
\* entry that is no symlink or the transcoding of the path threw.  No call and
\* no handler of an operation terminates the connection, and a failure asking
\* for a reconnect reaches the caller with its code.
C17_NoRetry ==
    [][/\ \A i \in OpIds :
             /\ ops'[i].primitives <= 1
             /\ Finished(ops'[i]) =>
                   ops'[i].primitives =
                       (IF \/ ops'[i].kind = "readlink" /\ ops'[i].fileinfo.type # "l"
                           \/ ops'[i].phase = "thrown" /\ ops'[i].error = EncodingError
                        THEN 0 ELSE 1)
             /\ (/\ ops'[i].backendFailed
                 /\ ops'[i].backendErr.ftpCode \in {REUQEST_RECONNECT_AND_RETRY,
                                                   REUQEST_RECONNECT_AND_RETRY_ONCE})
                    => ops'[i].phase = "rejected" /\ ops'[i].error = ops'[i].backendErr
       /\ ops' # ops => terminated' = terminated]_vars

\* C17 witness: a failure asking for a reconnect has been passed on after one
\* call of the primitive, and a readlink has ended without any
C17_Witness ==
    /\ \E i \in OpIds : /\ ops[i].backendFailed /\ ops[i].primitives = 1
                        /\ ops[i].backendErr.ftpCode = REUQEST_RECONNECT_AND_RETRY
                        /\ ops[i].phase = "rejected"
    /\ \E i \in OpIds : /\ ops[i].kind = "readlink" /\ ops[i].phase = "thrown"
                        /\ ops[i].primitives = 0

\* C18: a close leaves the indicator cleared, and a close called while no
\* item exists changes nothing of the StateBar and disposes nothing.
C18_CloseIdempotent ==
    [][lastCall' = "close" =>
          /\ ~stateBar'.statebar.exists
          /\ ~stateBar.statebar.exists => stateBar' = stateBar
          /\ stateBar'.disposals - stateBar.disposals
                = (IF stateBar.statebar.exists THEN 1 ELSE 0)]_vars

\* C18 witness: close has been called on a StateBar that never showed
\* anything, and nothing was disposed
C18_Witness ==
    lastCall = "close" /\ stateBar.created = 0 /\ stateBar.disposals = 0

\* C19: whenever every issued invocation has finished, the indicator is
\* cleared: an item exists only while at least one invocation is in flight.
C19_VisibleOnlyInFlight ==
    (\A i \in OpIds : ops[i].phase = "idle" \/ Finished(ops[i]))
        => ~stateBar.statebar.exists

\* C20: once dispose() has been called no call makes an item exist again and
\* none is created; at every moment at most one created item is not disposed,
\* and it is the one the statebar field holds.
C20_DisposedForGood ==
    [][/\ stateBar.disposed =>
             /\ stateBar'.disposed
             /\ ~stateBar'.statebar.exists
             /\ stateBar'.created = stateBar.created
       /\ stateBar'.created - stateBar'.disposals
             = (IF stateBar'.statebar.exists THEN 1 ELSE 0)
       /\ stateBar'.created > stateBar.created
             => stateBar.created = stateBar.disposals]_vars

\* C20 witness: set has been called on a disposed StateBar that had created
\* and disposed more than one item
C20_Witness ==
    lastCall = "set" /\ stateBar.disposed /\ stateBar.created >= 2

=============================================================================
